---- MODULE Spec2Model ----
(***************************************************************************)
(* A model of the Snipe Checks bot (src/bot.py): the two MongoDB           *)
(* collections, the three pump.fun gateway calls, the address validator    *)
(* and the five handlers that read and write the collections.              *)
(*                                                                         *)
(* Numbers. Python floats are modelled as a small binary floating-point    *)
(* format: a value is an integer count of units of 2^-FracBits, and every  *)
(* arithmetic result is rounded (to nearest, ties to even) to MantBits     *)
(* significant bits, as IEEE-754 does with 53 bits.  NaN and infinities    *)
(* are outside the model.                                                  *)
(***************************************************************************)
EXTENDS Integers, Sequences, FiniteSets, TLC

\* ---------------------------------------------------------------- bounds
FracBits == 3
MantBits == 4
MaxRequests == 2
MaxAddrLen == 45
MaxList == 11
MaxDocs == 3

\* ------------------------------------------------------- program constants
TopN == 10

\* ----------------------------------------------------------------- floats
RECURSIVE Pow2(_)
Pow2(n) == IF n = 0 THEN 1 ELSE 2 * Pow2(n - 1)

One == Pow2(FracBits)

\* round X / E to the nearest integer, ties to the even one
RoundHalfEven(X, E) ==
    LET q == X \div E
        r == X % E
    IN  IF 2 * r < E THEN q
        ELSE IF 2 * r > E THEN q + 1
        ELSE IF q % 2 = 0 THEN q ELSE q + 1

RECURSIVE Quantum(_, _, _)
Quantum(X, D, Q) ==
    IF X < Pow2(MantBits) * Q * D THEN Q ELSE Quantum(X, D, 2 * Q)

\* the float nearest to the rational X / D (in units), X >= 0, D > 0
RoundPos(X, D) ==
    LET Q == Quantum(X, D, 1)
    IN  Q * RoundHalfEven(X, D * Q)

RoundF(X, D) == IF X < 0 THEN 0 - RoundPos(0 - X, D) ELSE RoundPos(X, D)

FMul(a, b) == RoundF(a * b, One)
FDiv(a, b) == IF b < 0 THEN RoundF((0 - a) * One, 0 - b) ELSE RoundF(a * One, b)
FAdd(a, b) == RoundF(a + b, 1)
FSub(a, b) == RoundF(a - b, 1)

\* the literal 0.5 of lines 207, 361 and 362
Half == One \div 2

\* ------------------------------------------------------ address validator
\* the character class [1-9A-HJ-NP-Za-km-z] of line 87
Base58 ==
    {"1", "2", "3", "4", "5", "6", "7", "8", "9",
     "A", "B", "C", "D", "E", "F", "G", "H", "J", "K", "L", "M", "N",
     "P", "Q", "R", "S", "T", "U", "V", "W", "X", "Y", "Z",
     "a", "b", "c", "d", "e", "f", "g", "h", "i", "j", "k",
     "m", "n", "o", "p", "q", "r", "s", "t", "u", "v", "w", "x", "y", "z"}

\* re.match(r'^[1-9A-HJ-NP-Za-km-z]+$', s): one or more characters of the
\* class from the start, then "$", which Python matches at the end of the
\* string and also just before a newline that ends the string
re_match(s) ==
    \E k \in 1..Len(s) :
        /\ \A i \in 1..k : s[i] \in Base58
        /\ \/ k = Len(s)
           \/ k = Len(s) - 1 /\ s[Len(s)] = "\n"

is_valid_solana_address(address) ==
    IF Len(address) \notin {43, 44} THEN FALSE ELSE re_match(address)

\* str.strip(): leading and trailing whitespace removed
Whitespace == {" ", "\n", "\t", "\r"}

RECURSIVE lstrip(_)
lstrip(s) ==
    IF s # <<>> /\ Head(s) \in Whitespace THEN lstrip(Tail(s)) ELSE s

RECURSIVE rstrip(_)
rstrip(s) ==
    IF s # <<>> /\ s[Len(s)] \in Whitespace
    THEN rstrip(SubSeq(s, 1, Len(s) - 1)) ELSE s

strip(s) == rstrip(lstrip(s))

\* ---------------------------------------------------------------- gateway
\* A JSON value as the handlers see it: a number, null, a text that is not
\* a number, a text that spells a number, or an absent key.
Num(n) == [t |-> "num", v |-> n]
Null == [t |-> "null", v |-> 0]
Str == [t |-> "str", v |-> 0]
NumStr(n) == [t |-> "numstr", v |-> n]
Missing == [t |-> "missing", v |-> 0]
\* a local that was not assigned yet
Unset == [t |-> "unset", v |-> 0]

\* An HTTP exchange: kind "error" is a transport error, a timeout or an
\* HTTP error status (raise_for_status); "nonjson" a body resp.json()
\* rejects; "null", "object", "array" the JSON value of the body.
\*   sol-price      : [kind, field]   field = the value under "solPrice"
\*   candlesticks   : [kind, candles] candles = sequence of [isobj, close]
\*   balances       : [kind, items]   items = sequence of [isobj, balance, value]

get_sol_price(resp) ==
    IF resp.kind # "object" THEN Num(0)
    ELSE IF resp.field.t = "missing" THEN Num(0)
    ELSE resp.field

\* float(x) of line 79: a number, or None for the TypeError / ValueError
float(x) ==
    CASE x.t = "num" -> Num(x.v)
      [] x.t = "numstr" -> Num(x.v)
      [] OTHER -> Null

get_latest_close_price_in_sol(resp) ==
    IF resp.kind \in {"error", "nonjson", "null", "object"} THEN Num(0)
    ELSE IF resp.candles = <<>> THEN Num(0)
    ELSE LET latest_candle == resp.candles[Len(resp.candles)]
         IN  IF ~latest_candle.isobj THEN Num(0)
             ELSE IF latest_candle.close.t = "missing" THEN Num(0)
             ELSE IF float(latest_candle.close).t = "num"
                  THEN float(latest_candle.close)
                  ELSE Num(0)

get_wallet_balances(resp) ==
    IF resp.kind \in {"error", "nonjson"}
    THEN [kind |-> "array", items |-> <<>>]
    ELSE resp

\* ------------------------------------------------------------------ state
VARIABLES
    picks_collection,   \* db["picks"]: sequence of pick documents, insertion order
    wallets_collection, \* db["wallets"]: sequence of wallet documents
    slot,               \* per request slot, the handler running in it:
                        \*   pc        the handler's position
                        \*   op, chat_id, user_id, text   the update handled
                        \*   sol_price the local sol_price, as returned
                        \*   doc       pick_doc / doc built before insert_one
                        \*   all_items all_picks / all_wallets / user_picks
                        \*   data_list data_list / results / lines so far
                        \*   reads     what the per-item gateway calls of this
                        \*             request returned, in call order
                        \*   reply     what the handler answered; "Fault" for an
                        \*             exception that left the handler
                        \*   out       the ranked list or the share text
                        \*   db_error  a ledger call of this request failed
                        \*             with an error that is no duplicate
                        \*   wrote     this request added a document
    started,            \* number of updates dispatched so far
    address,            \* validator check: the string under test
    valid               \* validator check: [called, result]

vars == <<picks_collection, wallets_collection, slot, started,
          address, valid>>

ledger_vars == <<picks_collection, wallets_collection>>
pure_vars == <<address, valid>>

Procs == {1, 2}
Chats == {1, 2}
Users == {1, 2}
\* who writes in which chat: user 1 in both chats, user 2 in chat 1
Members(chat_id) == IF chat_id = 1 THEN {1, 2} ELSE {1}

\* update.effective_user.username or "Anonymous" (lines 186, 286, 343)
Username(user_id) == IF user_id = 1 THEN "alice" ELSE "Anonymous"

\* ----------------------------------------------------------------- inputs
Rep(c, n) == [i \in 1..n |-> c]
A1 == Rep("1", 43)
A2 == Rep("z", 44)
PaddedA1 == <<" ">> \o A1 \o <<"\n">>
BadO == Rep("O", 43)
Texts == {A1, A2, PaddedA1, BadO}

NoField == Missing
SolResponses ==
    {[kind |-> k, field |-> NoField] : k \in {"error", "nonjson", "array"}}
    \cup {[kind |-> "object", field |-> f] :
            f \in {Missing, Null, Num(0), Num(0 - One),
                   Num(2 * One), Num(3 * One)}}

Candle(c) == [isobj |-> TRUE, close |-> c]
NotACandle == [isobj |-> FALSE, close |-> Missing]
CloseResponses ==
    {[kind |-> k, candles |-> <<>>] :
        k \in {"error", "nonjson", "null", "object", "array"}}
    \cup {[kind |-> "array", candles |-> <<NotACandle>>]}
    \cup {[kind |-> "array", candles |-> <<Candle(Num(One)), Candle(c)>>] :
            c \in {Missing, Null, Str, NumStr(One \div 4), Num(0),
                   Num(One \div 2), Num(One \div 4)}}

Holding(b, v) == [isobj |-> TRUE, balance |-> b, value |-> v]
NotAHolding == [isobj |-> FALSE, balance |-> Missing, value |-> Missing]
BalanceResponses ==
    {[kind |-> k, items |-> <<>>] :
        k \in {"error", "nonjson", "null", "object", "array"}}
    \cup {[kind |-> "array", items |-> it] :
            it \in {<<NotAHolding>>,
                    <<Holding(Num(2 * One), Num(One \div 2))>>,
                    <<Holding(Num(2 * One), Num(One \div 2)),
                      Holding(Num(One), Num(One))>>,
                    <<Holding(Missing, Num(One))>>,
                    <<Holding(Num(One), Null)>>,
                    <<Holding(Num(One), Str)>>}}

\* ----------------------------------------------------------------- ledger
\* The collections as pymongo shows them.  Every call can also fail with an
\* error that is no duplicate (connection lost, server error): the handlers
\* pick that outcome with \E where they make the call.

\* picks_collection.find_one({"chat_id": .., "mint_address": ..}), line 346
picks_find_one(coll, chat_id, mint_address) ==
    \E i \in 1..Len(coll) :
        coll[i].chat_id = chat_id /\ coll[i].mint_address = mint_address

\* wallets_collection.find_one({"chat_id": .., "wallet_address": ..}), line 197
wallets_find_one(coll, chat_id, wallet_address) ==
    \E i \in 1..Len(coll) :
        coll[i].chat_id = chat_id /\ coll[i].wallet_address = wallet_address

\* find({}): the documents of every chat
find_all(coll, chat_id) == coll

\* find({"chat_id": chat_id}), lines 143 and 240: natural (insertion) order
find_chat(coll, chat_id) ==
    SelectSeq(coll, LAMBDA d : d.chat_id = chat_id)

\* find({"chat_id": chat_id}) where the user was to be asked for too
find_chat_any_user(coll, chat_id, user_id) ==
    SelectSeq(coll, LAMBDA d : d.chat_id = chat_id)

\* find({"chat_id": chat_id, "user_id": user_id}), line 288
find_chat_user(coll, chat_id, user_id) ==
    SelectSeq(coll, LAMBDA d : d.chat_id = chat_id /\ d.user_id = user_id)

\* a picks collection whose unique index was never created
picks_insert_one_no_index(coll, d) ==
    [ok |-> TRUE, coll |-> Append(coll, d)]

\* picks_collection.insert_one under chat_mint_unique_index (lines 49-53):
\* DuplicateKeyError, and no change, when the key is stored already
picks_insert_one(coll, d) ==
    IF picks_find_one(coll, d.chat_id, d.mint_address)
    THEN [ok |-> FALSE, coll |-> coll]
    ELSE [ok |-> TRUE, coll |-> Append(coll, d)]

\* an insert that replaces the stored document of the same key (an upsert,
\* replace_one(.., upsert=True))
wallets_insert_one_upsert(coll, d) ==
    IF wallets_find_one(coll, d.chat_id, d.wallet_address)
    THEN [ok |-> TRUE,
          coll |-> [i \in 1..Len(coll) |->
                      IF coll[i].chat_id = d.chat_id
                         /\ coll[i].wallet_address = d.wallet_address
                      THEN d ELSE coll[i]]]
    ELSE [ok |-> TRUE, coll |-> Append(coll, d)]

\* wallets_collection.insert_one: the wallets collection has no index
\* (lines 43-53 create one for picks only), so every insert is accepted
wallets_insert_one(coll, d) ==
    [ok |-> TRUE, coll |-> Append(coll, d)]

\* --------------------------------------------------------- PnL calculator
\* lines 361-372
pick_doc(chat_id, user_id, mint_address, sol, close_price_sol) ==
    [chat_id |-> chat_id,
     user_id |-> user_id,
     username |-> Username(user_id),
     mint_address |-> mint_address,
     cost_basis_usd |-> FMul(Half, sol),
     num_tokens |-> FDiv(Half, close_price_sol)]

\* lines 207-216
wallet_doc(chat_id, user_id, wallet_address, sol) ==
    [chat_id |-> chat_id,
     user_id |-> user_id,
     username |-> Username(user_id),
     wallet_address |-> wallet_address,
     start_usd_value |-> FMul(Half, sol)]

\* a valuation that takes the stake at the prices of the query: the cost
\* basis and the number of tokens are computed again from the live prices
value_pick_live_cost(pick, current_close_sol, sol) ==
    LET current_token_price_usd == FMul(current_close_sol, sol)
        cost_basis_usd == FMul(Half, sol)
        num_tokens == IF current_close_sol > 0
                      THEN FDiv(Half, current_close_sol) ELSE pick.num_tokens
        current_value_usd == FMul(num_tokens, current_token_price_usd)
    IN  [username |-> pick.username,
         mint |-> pick.mint_address,
         cost_basis_usd |-> cost_basis_usd,
         current_price_usd |-> current_token_price_usd,
         pnl |-> FSub(current_value_usd, cost_basis_usd)]

\* a valuation that reports the current value as the pnl (the cost basis
\* is not subtracted)
value_pick_gross(pick, current_close_sol, sol) ==
    LET current_token_price_usd == FMul(current_close_sol, sol)
        current_value_usd == FMul(pick.num_tokens, current_token_price_usd)
    IN  [username |-> pick.username,
         mint |-> pick.mint_address,
         cost_basis_usd |-> pick.cost_basis_usd,
         current_price_usd |-> current_token_price_usd,
         pnl |-> current_value_usd]

\* lines 150-166 (and 302-309): one pick valued at the prices just read
value_pick(pick, current_close_sol, sol) ==
    LET current_token_price_usd == FMul(current_close_sol, sol)
        current_value_usd == FMul(pick.num_tokens, current_token_price_usd)
    IN  [username |-> pick.username,
         mint |-> pick.mint_address,
         cost_basis_usd |-> pick.cost_basis_usd,
         current_price_usd |-> current_token_price_usd,
         pnl |-> FSub(current_value_usd, pick.cost_basis_usd)]

\* lines 253-257: the sum over the holdings, or "Fault" where Python raises
\* (iterating None, .get on a key of a dict or on a number, a product or a
\* sum with None or with a text)
RECURSIVE sum_holdings(_, _)
sum_holdings(items, total_usd) ==
    IF items = <<>> THEN Num(total_usd)
    ELSE LET token_info == Head(items)
             token_price == IF token_info.value.t = "missing"
                            THEN Num(0) ELSE token_info.value
             token_balance == IF token_info.balance.t = "missing"
                              THEN Num(0) ELSE token_info.balance
         IN  IF ~token_info.isobj THEN [t |-> "Fault", v |-> 0]
             ELSE IF token_price.t # "num" \/ token_balance.t # "num"
                  THEN [t |-> "Fault", v |-> 0]
             ELSE sum_holdings(Tail(items),
                      FAdd(total_usd, FMul(token_balance.v, token_price.v)))

wallet_total(balances) ==
    IF balances.kind \in {"null", "object"} THEN [t |-> "Fault", v |-> 0]
    ELSE sum_holdings(balances.items, 0)

\* lines 247-266
value_wallet(w, total_usd) ==
    [username |-> w.username,
     wallet_address |-> w.wallet_address,
     net_worth_usd |-> total_usd,
     pnl_usd |-> FSub(total_usd, w.start_usd_value)]

\* ----------------------------------------------------------------- ranker
\* list.sort(key=.., reverse=True): descending, and stable (equal keys keep
\* their order): each element goes behind every element whose key is >= its
RECURSIVE insert_desc(_, _, _)
insert_desc(order, i, keys) ==
    IF order = <<>> THEN <<i>>
    ELSE IF keys[Head(order)] >= keys[i]
         THEN <<Head(order)>> \o insert_desc(Tail(order), i, keys)
         ELSE <<i>> \o order

\* the order (a sequence of positions of keys) the sort leaves the list in
RECURSIVE sort_order(_, _)
sort_order(keys, n) ==
    IF n = 0 THEN <<>>
    ELSE insert_desc(sort_order(keys, n - 1), n, keys)

\* sorted ascending and then reversed (list.sort(key=..); list.reverse()):
\* descending too, but equal keys come out in reverse order
RECURSIVE insert_asc(_, _, _)
insert_asc(order, i, keys) ==
    IF order = <<>> THEN <<i>>
    ELSE IF keys[Head(order)] <= keys[i]
         THEN <<Head(order)>> \o insert_asc(Tail(order), i, keys)
         ELSE <<i>> \o order

RECURSIVE sort_order_asc(_, _)
sort_order_asc(keys, n) ==
    IF n = 0 THEN <<>>
    ELSE insert_asc(sort_order_asc(keys, n - 1), n, keys)

sort_then_reverse(list, keys) ==
    LET order == sort_order_asc(keys, Len(list))
    IN  [j \in 1..Len(list) |-> list[order[Len(list) + 1 - j]]]

sort_reverse(list, keys) ==
    LET order == sort_order(keys, Len(list))
    IN  [j \in 1..Len(list) |-> list[order[j]]]

\* the slice left out
top_slice_all(list) == list

\* data_list[:10]
top_slice(list) == SubSeq(list, 1, IF Len(list) < TopN THEN Len(list) ELSE TopN)

\* enumerate(.., start=1)
enumerate(list) == [i \in 1..Len(list) |-> [rank |-> i, item |-> list[i]]]

\* lines 168-170: key=lambda x: x["pnl"]
rank_picks(list) ==
    enumerate(top_slice(
        sort_reverse(list, [i \in 1..Len(list) |-> list[i].pnl])))

\* lines 268-271: key=lambda x: x["pnl_usd"]
rank_wallets(list) ==
    enumerate(top_slice(
        sort_reverse(list, [i \in 1..Len(list) |-> list[i].pnl_usd])))

\* what the gateway calls can return, over all the exchanges above
SolPriceReturns == {get_sol_price(resp) : resp \in SolResponses}
ClosePriceReturns == {get_latest_close_price_in_sol(resp) : resp \in CloseResponses}
BalancesReturns == {get_wallet_balances(resp) : resp \in BalanceResponses}

\* update.message.text.strip() with the validator's verdict on it
\* (lines 336-337)
TextUpdates ==
    {[text |-> strip(raw), ok |-> is_valid_solana_address(strip(raw))] :
        raw \in Texts}

\* context.args, and context.args[0].strip() with the validator's verdict
\* (lines 188-193)
ArgUpdates ==
    {[args |-> 0, text |-> <<>>, ok |-> FALSE]}
    \cup {[args |-> 1, text |-> strip(a),
           ok |-> is_valid_solana_address(strip(a))] : a \in {A1, A2, BadO}}

\* --------------------------------------------------------------- handlers
\* One request slot runs one handler at a time.  A handler is cut into one
\* step per external call (a ledger call or a gateway call); what it
\* computes between two calls belongs to the step of the earlier call, and
\* the locals of a handler are gone when it returns.  Slots interleave
\* between steps: the bot and the database are separate processes, and
\* several bot processes can share one database.

NoOutput == [list |-> <<>>, total_pnl |-> 0]

Idle ==
    [pc |-> "idle", op |-> "none", chat_id |-> 0, user_id |-> 0, text |-> <<>>,
     sol_price |-> Unset, doc |-> <<>>, all_items |-> <<>>, data_list |-> <<>>,
     reads |-> <<>>, reply |-> "none", out |-> NoOutput, db_error |-> FALSE, wrote |-> FALSE]

\* a new update handled by `op`, at `label`
Fresh(op, chat_id, user_id, text, label) ==
    [Idle EXCEPT !.pc = label, !.op = op, !.chat_id = chat_id,
                 !.user_id = user_id, !.text = text]

\* the handler returns after answering r: of its locals the model keeps
\* the prices it read and the list its reply was made from
Returned(s, r) ==
    [s EXCEPT !.pc = "done", !.reply = r, !.chat_id = 0, !.user_id = 0,
              !.text = <<>>, !.doc = <<>>, !.all_items = <<>>]

\* an exception leaves the handler
Raised(s) == Returned(s, "Fault")

\* a ledger call failed with an error that is no duplicate
DbFailed(s) == [s EXCEPT !.db_error = TRUE]

\* an update is handled in the first slot that runs no handler
Free(p) ==
    /\ started < MaxRequests
    /\ slot[p].pc \in {"idle", "done"}
    /\ \A q \in Procs : q < p => slot[q].pc \notin {"idle", "done"}

Dispatch(p, s) ==
    /\ started' = started + 1
    /\ slot' = [slot EXCEPT ![p] = s]
    /\ UNCHANGED <<ledger_vars, pure_vars>>

\* a step of the handler in slot p that leaves the ledger alone
Step(p, s) ==
    /\ slot' = [slot EXCEPT ![p] = s]
    /\ UNCHANGED <<ledger_vars, started, pure_vars>>

\* the test written "< 0"
sol_price_negative(v) == v < 0

\* if sol_price <= 0: reply and return (lines 139, 203, 236, 294, 352)
sol_price_unusable(v) == v <= 0

\* sol_price = get_sol_price() and the test that follows it.  Comparing
\* None or a text with 0 raises TypeError.
after_sol_price(s, v, label) ==
    LET s1 == [s EXCEPT !.sol_price = v]
    IN  IF v.t # "num" THEN Raised(s1)
        ELSE IF sol_price_unusable(v.v)
             THEN Returned(s1, "MarketDataUnavailable")
             ELSE [s1 EXCEPT !.pc = label]

\* ---- handle_contract_address, lines 335-387
HcStart(p) ==
    /\ Free(p)
    /\ \E chat_id \in Chats : \E user_id \in Members(chat_id), u \in TextUpdates :
        Dispatch(p, IF ~u.ok
                    THEN Returned(Fresh("record", chat_id, user_id, u.text, "done"),
                                  "ValidationError")
                    ELSE Fresh("record", chat_id, user_id, u.text, "hc_find_one"))

\* a handler that goes on to the prices whatever find_one returned
HcFindOneIgnored(p) ==
    /\ slot[p].pc = "hc_find_one"
    /\ \E db_ok \in BOOLEAN :
        LET s == slot[p]
        IN  Step(p, IF ~db_ok THEN Raised(DbFailed(s))
                    ELSE [s EXCEPT !.pc = "hc_sol_price"])

HcFindOne(p) ==
    /\ slot[p].pc = "hc_find_one"
    /\ \E db_ok \in BOOLEAN :
        LET s == slot[p]
            existing_pick == picks_find_one(picks_collection, s.chat_id, s.text)
        IN  Step(p, IF ~db_ok THEN Raised(DbFailed(s))
                    ELSE IF existing_pick THEN Returned(s, "DuplicateKey")
                    ELSE [s EXCEPT !.pc = "hc_sol_price"])

HcSolPrice(p, sols) ==
    /\ slot[p].pc = "hc_sol_price"
    /\ \E v \in sols : Step(p, after_sol_price(slot[p], v, "hc_close_price"))

\* the test written "== 0"
close_price_zero(v) == v = 0

\* if close_price_sol <= 0: reply and return (line 357)
close_price_unusable(v) == v <= 0

HcClosePrice(p, closes) ==
    /\ slot[p].pc = "hc_close_price"
    /\ \E close_price_sol \in closes :
        LET s == [slot[p] EXCEPT !.reads = Append(@, close_price_sol)]
        IN  Step(p, IF close_price_unusable(close_price_sol.v)
                    THEN Returned(s, "MarketDataUnavailable")
                    ELSE [s EXCEPT !.pc = "hc_insert",
                                   !.doc = <<pick_doc(s.chat_id, s.user_id, s.text,
                                                      s.sol_price.v,
                                                      close_price_sol.v)>>])

\* the except clause of lines 375-378 left out: the pick is reported as added
\* whatever insert_one did
HcInsertUnchecked(p) ==
    /\ slot[p].pc = "hc_insert"
    /\ \E db_ok \in BOOLEAN :
        LET s == slot[p]
            res == picks_insert_one(picks_collection, s.doc[1])
        IN  /\ slot' = [slot EXCEPT ![p] =
                    Returned([s EXCEPT !.wrote = TRUE, !.db_error = ~db_ok], "Added")]
            /\ picks_collection' = IF db_ok THEN res.coll ELSE picks_collection
    /\ UNCHANGED <<wallets_collection, started, pure_vars>>

\* lines 373-387: every exception of insert_one is answered the same way
HcInsert(p) ==
    /\ slot[p].pc = "hc_insert"
    /\ \E db_ok \in BOOLEAN :
        LET s == slot[p]
            res == picks_insert_one(picks_collection, s.doc[1])
        IN  /\ slot' = [slot EXCEPT ![p] =
                    IF ~db_ok THEN Returned(DbFailed(s), "InsertFailed")
                    ELSE IF ~res.ok THEN Returned(s, "InsertFailed")
                    ELSE Returned([s EXCEPT !.wrote = TRUE], "Added")]
            /\ picks_collection' = IF db_ok THEN res.coll ELSE picks_collection
    /\ UNCHANGED <<wallets_collection, started, pure_vars>>

\* ---- register_wallet_command, lines 183-230
RwStart(p) ==
    /\ Free(p)
    /\ \E chat_id \in Chats : \E user_id \in Members(chat_id), u \in ArgUpdates :
        Dispatch(p, IF u.args = 0
                    THEN Returned(Fresh("register", chat_id, user_id, u.text, "done"),
                                  "Usage")
                    ELSE IF ~u.ok
                    THEN Returned(Fresh("register", chat_id, user_id, u.text, "done"),
                                  "ValidationError")
                    ELSE Fresh("register", chat_id, user_id, u.text, "rw_find_one"))

RwFindOne(p) ==
    /\ slot[p].pc = "rw_find_one"
    /\ \E db_ok \in BOOLEAN :
        LET s == slot[p]
            existing == wallets_find_one(wallets_collection, s.chat_id, s.text)
        IN  Step(p, IF ~db_ok THEN Raised(DbFailed(s))
                    ELSE IF existing THEN Returned(s, "DuplicateKey")
                    ELSE [s EXCEPT !.pc = "rw_sol_price"])

\* lines 202-216: the price, the test, and the document built from it
RwSolPrice(p, sols) ==
    /\ slot[p].pc = "rw_sol_price"
    /\ \E v \in sols :
        LET s == after_sol_price(slot[p], v, "rw_insert")
        IN  Step(p, IF s.pc # "rw_insert" THEN s
                    ELSE [s EXCEPT !.doc = <<wallet_doc(s.chat_id, s.user_id,
                                                        s.text, v.v)>>])

RwInsert(p) ==
    /\ slot[p].pc = "rw_insert"
    /\ \E db_ok \in BOOLEAN :
        LET s == slot[p]
            res == wallets_insert_one(wallets_collection, s.doc[1])
        IN  /\ slot' = [slot EXCEPT ![p] =
                    IF ~db_ok THEN Returned(DbFailed(s), "InsertFailed")
                    ELSE IF ~res.ok THEN Returned(s, "InsertFailed")
                    ELSE Returned([s EXCEPT !.wrote = TRUE], "Added")]
            /\ wallets_collection' = IF db_ok THEN res.coll ELSE wallets_collection
    /\ UNCHANGED <<picks_collection, started, pure_vars>>

\* ---- leaderboard_command, lines 136-180 (the sender is not read)
LbStart(p) ==
    /\ Free(p)
    /\ \E chat_id \in Chats :
        Dispatch(p, Fresh("leaderboard", chat_id, 0, <<>>, "lb_sol_price"))

LbSolPrice(p, sols) ==
    /\ slot[p].pc = "lb_sol_price"
    /\ \E v \in sols : Step(p, after_sol_price(slot[p], v, "lb_find"))

LbFind(p) ==
    /\ slot[p].pc = "lb_find"
    /\ \E db_ok \in BOOLEAN :
        LET s == slot[p]
            all_picks == find_chat(picks_collection, s.chat_id)
        IN  Step(p, IF ~db_ok THEN Raised(DbFailed(s))
                    ELSE IF all_picks = <<>> THEN Returned(s, "NoPicks")
                    ELSE [s EXCEPT !.pc = "lb_loop", !.all_items = all_picks])

\* a loop that calls get_sol_price() again in every turn
LbLoopRereads(p, closes) ==
    /\ slot[p].pc = "lb_loop"
    /\ \E current_close_sol \in closes, v \in {Num(2 * One), Num(3 * One)} :
        LET s == [slot[p] EXCEPT !.reads = Append(@, current_close_sol),
                                 !.sol_price = v]
            pick == s.all_items[Len(s.data_list) + 1]
            list == Append(s.data_list,
                           value_pick(pick, current_close_sol.v, s.sol_price.v))
        IN  Step(p, IF Len(list) < Len(s.all_items)
                    THEN [s EXCEPT !.data_list = list]
                    ELSE Returned([s EXCEPT !.data_list = list,
                                            !.out.list = rank_picks(list)],
                                  "Leaderboard"))

\* one turn of the loop of lines 149-166; the last turn runs on into the
\* sort and the reply of lines 168-180
LbLoop(p, closes) ==
    /\ slot[p].pc = "lb_loop"
    /\ \E current_close_sol \in closes :
        LET s == [slot[p] EXCEPT !.reads = Append(@, current_close_sol)]
            pick == s.all_items[Len(s.data_list) + 1]
            list == Append(s.data_list,
                           value_pick(pick, current_close_sol.v, s.sol_price.v))
        IN  Step(p, IF Len(list) < Len(s.all_items)
                    THEN [s EXCEPT !.data_list = list]
                    ELSE Returned([s EXCEPT !.data_list = list,
                                            !.out.list = rank_picks(list)],
                                  "Leaderboard"))

\* ---- sniper_leaderboard_command, lines 233-280
SnStart(p) ==
    /\ Free(p)
    /\ \E chat_id \in Chats :
        Dispatch(p, Fresh("sniper", chat_id, 0, <<>>, "sn_sol_price"))

SnSolPrice(p, sols) ==
    /\ slot[p].pc = "sn_sol_price"
    /\ \E v \in sols : Step(p, after_sol_price(slot[p], v, "sn_find"))

SnFind(p) ==
    /\ slot[p].pc = "sn_find"
    /\ \E db_ok \in BOOLEAN :
        LET s == slot[p]
            all_wallets == find_chat(wallets_collection, s.chat_id)
        IN  Step(p, IF ~db_ok THEN Raised(DbFailed(s))
                    ELSE IF all_wallets = <<>> THEN Returned(s, "NoWallets")
                    ELSE [s EXCEPT !.pc = "sn_loop", !.all_items = all_wallets])

\* a loop that takes the stake at the reference price of the query:
\* pnl_usd = total_usd - 0.5 * sol_price
SnLoopLiveStart(p, holdings) ==
    /\ slot[p].pc = "sn_loop"
    /\ \E balances \in holdings :
        LET s == [slot[p] EXCEPT !.reads = Append(@, balances)]
            w == [s.all_items[Len(s.data_list) + 1]
                    EXCEPT !.start_usd_value = FMul(Half, s.sol_price.v)]
            total_usd == wallet_total(balances)
            results == Append(s.data_list, value_wallet(w, total_usd.v))
        IN  Step(p, IF total_usd.t = "Fault"
                    THEN Raised([s EXCEPT !.data_list = <<>>, !.reads = <<>>])
                    ELSE IF Len(results) < Len(s.all_items)
                    THEN [s EXCEPT !.data_list = results]
                    ELSE Returned([s EXCEPT !.data_list = results,
                                            !.out.list = rank_wallets(results)],
                                  "Leaderboard"))

\* one turn of the loop of lines 246-266, the last one with lines 268-280
SnLoop(p, holdings) ==
    /\ slot[p].pc = "sn_loop"
    /\ \E balances \in holdings :
        LET s == [slot[p] EXCEPT !.reads = Append(@, balances)]
            w == s.all_items[Len(s.data_list) + 1]
            total_usd == wallet_total(balances)
            results == Append(s.data_list, value_wallet(w, total_usd.v))
        IN  Step(p, IF total_usd.t = "Fault"
                    THEN Raised([s EXCEPT !.data_list = <<>>, !.reads = <<>>])
                    ELSE IF Len(results) < Len(s.all_items)
                    THEN [s EXCEPT !.data_list = results]
                    ELSE Returned([s EXCEPT !.data_list = results,
                                            !.out.list = rank_wallets(results)],
                                  "Leaderboard"))

\* ---- share_command, lines 283-332
ShStart(p) ==
    /\ Free(p)
    /\ \E chat_id \in Chats : \E user_id \in Members(chat_id) :
        Dispatch(p, Fresh("share", chat_id, user_id, <<>>, "sh_find"))

ShFind(p) ==
    /\ slot[p].pc = "sh_find"
    /\ \E db_ok \in BOOLEAN :
        LET s == slot[p]
            user_picks == find_chat_user(picks_collection, s.chat_id, s.user_id)
        IN  Step(p, IF ~db_ok THEN Raised(DbFailed(s))
                    ELSE IF user_picks = <<>> THEN Returned(s, "NoPositions")
                    ELSE [s EXCEPT !.pc = "sh_sol_price", !.all_items = user_picks])

ShSolPrice(p, sols) ==
    /\ slot[p].pc = "sh_sol_price"
    /\ \E v \in sols : Step(p, after_sol_price(slot[p], v, "sh_loop"))

\* a share that re-bases what it shared: the cost basis of the pick just
\* valued is set to its current value (an update_one in the loop)
ShLoopRebasing(p, closes) ==
    /\ slot[p].pc = "sh_loop"
    /\ \E current_close_sol \in closes :
        LET s == [slot[p] EXCEPT !.reads = Append(@, current_close_sol)]
            pick == s.all_items[Len(s.data_list) + 1]
            pnl == value_pick(pick, current_close_sol.v, s.sol_price.v).pnl
            lines == Append(s.data_list, [mint |-> pick.mint_address, pnl |-> pnl])
            total_pnl == FAdd(s.out.total_pnl, pnl)
        IN  /\ slot' = [slot EXCEPT ![p] =
                    IF Len(lines) < Len(s.all_items)
                    THEN [s EXCEPT !.data_list = lines, !.out.total_pnl = total_pnl]
                    ELSE Returned([s EXCEPT !.data_list = lines,
                                            !.out = [list |-> lines,
                                                     total_pnl |-> total_pnl]],
                                  "ShareText")]
            /\ picks_collection' =
                [i \in 1..Len(picks_collection) |->
                    IF picks_collection[i] = pick
                    THEN [pick EXCEPT !.cost_basis_usd = FAdd(@, pnl)]
                    ELSE picks_collection[i]]
    /\ UNCHANGED <<wallets_collection, started, pure_vars>>

\* one turn of the loop of lines 301-314: a line [mint, pnl] and the running
\* total; the last turn runs on into lines 316-332
ShLoop(p, closes) ==
    /\ slot[p].pc = "sh_loop"
    /\ \E current_close_sol \in closes :
        LET s == [slot[p] EXCEPT !.reads = Append(@, current_close_sol)]
            pick == s.all_items[Len(s.data_list) + 1]
            pnl == value_pick(pick, current_close_sol.v, s.sol_price.v).pnl
            lines == Append(s.data_list, [mint |-> pick.mint_address, pnl |-> pnl])
            total_pnl == FAdd(s.out.total_pnl, pnl)
        IN  Step(p, IF Len(lines) < Len(s.all_items)
                    THEN [s EXCEPT !.data_list = lines, !.out.total_pnl = total_pnl]
                    ELSE Returned([s EXCEPT !.data_list = lines,
                                            !.out = [list |-> lines,
                                                     total_pnl |-> total_pnl]],
                                  "ShareText"))

\* ---------------------------------------------------------- specification
Init ==
    /\ picks_collection = <<>>
    /\ wallets_collection = <<>>
    /\ slot = [p \in Procs |-> Idle]
    /\ started = 0
    /\ address = <<>>
    /\ valid = [called |-> FALSE, result |-> FALSE]

Next ==
    \E p \in Procs :
        \/ HcStart(p) \/ HcFindOne(p) \/ HcSolPrice(p, SolPriceReturns)
        \/ HcClosePrice(p, ClosePriceReturns) \/ HcInsert(p)
        \/ RwStart(p) \/ RwFindOne(p) \/ RwSolPrice(p, SolPriceReturns)
        \/ RwInsert(p)
        \/ LbStart(p) \/ LbSolPrice(p, SolPriceReturns) \/ LbFind(p)
        \/ LbLoop(p, ClosePriceReturns)
        \/ SnStart(p) \/ SnSolPrice(p, SolPriceReturns) \/ SnFind(p)
        \/ SnLoop(p, BalancesReturns)
        \/ ShStart(p) \/ ShFind(p) \/ ShSolPrice(p, SolPriceReturns)
        \/ ShLoop(p, ClosePriceReturns)

Spec == Init /\ [][Next]_vars

\* ------------------------------------------------- the validator by itself
\* The strings tried: n times "1", with one character replaced by one of
\* TestChars or not, and with the last character replaced by a newline or not.
TestChars == {"z", "0", "O", "I", "l", "\n", " ", "-"}

Replace(s, i, c) == [s EXCEPT ![i] = c]

\* i = 0: nothing replaced
AddressInput(n, i, c, newline) ==
    LET base == Rep("1", n)
        one == IF i = 0 THEN base ELSE Replace(base, i, c)
    IN  IF newline /\ n > 0 THEN Replace(one, n, "\n") ELSE one

InitAddr ==
    /\ picks_collection = <<>>
    /\ wallets_collection = <<>>
    /\ slot = [p \in Procs |-> Idle]
    /\ started = 0
    /\ \E n \in 0..MaxAddrLen : \E i \in 0..n, c \in TestChars, newline \in BOOLEAN :
            address = AddressInput(n, i, c, newline)
    /\ valid = [called |-> FALSE, result |-> FALSE]

CheckAddress ==
    /\ ~valid.called
    /\ valid' = [called |-> TRUE, result |-> is_valid_solana_address(address)]
    /\ UNCHANGED <<ledger_vars, slot, started, address>>

NextAddr == CheckAddress

SpecAddr == InitAddr /\ [][NextAddr]_vars

\* ------------------------------------------- the leaderboards on long lists
\* Ledgers of chat 1 with up to MaxList documents, each as a successful
\* record / registration leaves it (at one of two reference prices), and one
\* leaderboard request on them.
RankChars ==
    <<"1", "2", "3", "4", "5", "6", "7", "8", "9", "A", "B", "C", "D", "E">>

RankSols == {2 * One, 3 * One}

RankPicks(n, f) ==
    [i \in 1..n |-> pick_doc(1, 1, Rep(RankChars[i], 43), f[i], One \div 2)]

RankWallets(n, f) ==
    [i \in 1..n |-> wallet_doc(1, 1, Rep(RankChars[i], 43), f[i])]

InitRank ==
    /\ \E n \in 0..MaxList : \E f \in [1..n -> RankSols] :
        \/ picks_collection = RankPicks(n, f) /\ wallets_collection = <<>>
        \/ picks_collection = <<>> /\ wallets_collection = RankWallets(n, f)
    /\ slot = [p \in Procs |-> Idle]
    /\ started = MaxRequests - 1
    /\ address = <<>>
    /\ valid = [called |-> FALSE, result |-> FALSE]

RankSolReturns == {Num(0), Num(2 * One)}
RankCloseReturns == {Num(One \div 2)}
RankBalancesReturns ==
    {[kind |-> "array", items |-> <<Holding(Num(2 * One), Num(One \div 2))>>]}

NextRank ==
    \/ LbStart(1) \/ LbSolPrice(1, RankSolReturns) \/ LbFind(1)
    \/ LbLoop(1, RankCloseReturns)
    \/ SnStart(1) \/ SnSolPrice(1, RankSolReturns) \/ SnFind(1)
    \/ SnLoop(1, RankBalancesReturns)

SpecRank == InitRank /\ [][NextRank]_vars

\* ------------------------------------------ one request on a loaded ledger
\* Ledgers as earlier requests of both chats leave them: up to MaxDocs picks
\* with distinct (chat_id, mint_address), stored at changing reference
\* prices, and none, one or three wallets.  One request of any handler runs
\* on them, with every outcome of the gateway calls, a negative close of
\* the latest candle included.
Owners == {<<chat_id, user_id>> : chat_id \in Chats, user_id \in Users}

LoadedSol(i) == IF i % 2 = 1 THEN 2 * One ELSE 3 * One

LoadedPicks(n, own, mint) ==
    [i \in 1..n |-> pick_doc(own[i][1], own[i][2], mint[i], LoadedSol(i), One \div 2)]

LoadedWallets ==
    {<<>>,
     <<wallet_doc(1, 2, A2, 2 * One)>>,
     <<wallet_doc(1, 1, A1, 2 * One), wallet_doc(2, 1, A1, 3 * One),
       wallet_doc(1, 2, A2, 3 * One)>>}

InitLoaded ==
    /\ \E n \in 0..MaxDocs :
        \E own \in [1..n -> Owners], mint \in [1..n -> {A1, A2}] :
            /\ \A i \in 1..n : own[i][2] \in Members(own[i][1])
            /\ \A i, j \in 1..n :
                (own[i][1] = own[j][1] /\ mint[i] = mint[j]) => i = j
            /\ picks_collection = LoadedPicks(n, own, mint)
    /\ wallets_collection \in LoadedWallets
    /\ slot = [p \in Procs |-> Idle]
    /\ started = MaxRequests - 1
    /\ address = <<>>
    /\ valid = [called |-> FALSE, result |-> FALSE]

LoadedCloseReturns ==
    ClosePriceReturns
    \cup {get_latest_close_price_in_sol(
            [kind |-> "array",
             candles |-> <<Candle(Num(0 - (One \div 2)))>>])}

NextLoaded ==
    \/ HcStart(1) \/ HcFindOne(1) \/ HcSolPrice(1, SolPriceReturns)
    \/ HcClosePrice(1, LoadedCloseReturns) \/ HcInsert(1)
    \/ RwStart(1) \/ RwFindOne(1) \/ RwSolPrice(1, SolPriceReturns)
    \/ RwInsert(1)
    \/ LbStart(1) \/ LbSolPrice(1, SolPriceReturns) \/ LbFind(1)
    \/ LbLoop(1, LoadedCloseReturns)
    \/ SnStart(1) \/ SnSolPrice(1, SolPriceReturns) \/ SnFind(1)
    \/ SnLoop(1, BalancesReturns)
    \/ ShStart(1) \/ ShFind(1) \/ ShSolPrice(1, SolPriceReturns)
    \/ ShLoop(1, LoadedCloseReturns)

SpecLoaded == InitLoaded /\ [][NextLoaded]_vars

\* ------------------------------------------- record, then value, in a row
\* From the empty ledger, requests handled one after another: picks and
\* wallets are stored at one set of prices and valued at another.  The
\* prices include trade prices that are no powers of two (0.75, 1.5), for
\* which 0.5 / price is rounded, and a negative close.
ValueSolReturns == {Num(0), Num(2 * One), Num(3 * One), Num(5 * One)}

ValueCloseReturns ==
    {Num(0 - (One \div 2)), Num(0), Num(One \div 4), Num(One \div 2),
     Num((3 * One) \div 4), Num((3 * One) \div 2)}

ValueBalancesReturns ==
    {get_wallet_balances(resp) :
        resp \in {[kind |-> "error", items |-> <<>>],
                  [kind |-> "array", items |-> <<>>],
                  [kind |-> "array",
                   items |-> <<Holding(Num(2 * One), Num(One \div 2))>>],
                  [kind |-> "array",
                   items |-> <<Holding(Num(3 * One), Num((3 * One) \div 4)),
                               Holding(Num(One), Num(One))>>],
                  [kind |-> "array",
                   items |-> <<Holding(Missing, Num(One)),
                               Holding(Num(2 * One), Num(One))>>]}}

NextValue ==
    \/ HcStart(1) \/ HcFindOne(1) \/ HcSolPrice(1, ValueSolReturns)
    \/ HcClosePrice(1, ValueCloseReturns) \/ HcInsert(1)
    \/ RwStart(1) \/ RwFindOne(1) \/ RwSolPrice(1, ValueSolReturns)
    \/ RwInsert(1)
    \/ LbStart(1) \/ LbSolPrice(1, ValueSolReturns) \/ LbFind(1)
    \/ LbLoop(1, ValueCloseReturns)
    \/ SnStart(1) \/ SnSolPrice(1, ValueSolReturns) \/ SnFind(1)
    \/ SnLoop(1, ValueBalancesReturns)

SpecValue == Init /\ [][NextValue]_vars

\* ================================================================= claims

\* at most one pick per (chat_id, mint_address)
PicksUnique ==
    \A i, j \in 1..Len(picks_collection) :
        (/\ picks_collection[i].chat_id = picks_collection[j].chat_id
         /\ picks_collection[i].mint_address = picks_collection[j].mint_address)
        => i = j

\* slot p takes the step that leaves label `label`
Leaves(p, label) == slot[p].pc = label /\ slot'[p].pc # label

\* C1: after every step the picks collection holds at most one document per
\* (chat_id, mint_address); and a record request whose find_one is answered
\* while a document of its (chat_id, mint_address) is stored is answered
\* DuplicateKey and leaves the collection as it was.
C1_OnePickPerChatAndMint ==
    [][/\ PicksUnique'
       /\ \A p \in Procs :
            (/\ Leaves(p, "hc_find_one")
             /\ ~slot'[p].db_error
             /\ picks_find_one(picks_collection, slot[p].chat_id, slot[p].text))
            => /\ slot'[p].reply = "DuplicateKey"
               /\ picks_collection' = picks_collection]_vars

\* a record request was answered DuplicateKey while its key is stored once
C1_Witness ==
    /\ Len(picks_collection) = 1
    /\ \E p \in Procs :
        slot[p].op = "record" /\ slot[p].reply = "DuplicateKey"

\* C2 (as claimed): the wallets collection holds at most one document per
\* (chat_id, wallet_address) in every reachable state.
C2_OneWalletPerChatAndAddress ==
    \A i, j \in 1..Len(wallets_collection) :
        (/\ wallets_collection[i].chat_id = wallets_collection[j].chat_id
         /\ wallets_collection[i].wallet_address
                = wallets_collection[j].wallet_address)
        => i = j

\* C3: when a record request reaches insert_one (it passed the find_one
\* check) and the insert is not cut by a database error, then either its key
\* is not stored and its document is appended and reported as added, or its
\* key was stored meanwhile by the other request, and then it is reported a
\* failure and the collection, the winner's document with it, is unchanged.
C3_RaceLoserFailsWinnerKept ==
    [][\A p \in Procs :
        (Leaves(p, "hc_insert") /\ ~slot'[p].db_error)
        => IF picks_find_one(picks_collection, slot[p].chat_id, slot[p].text)
           THEN /\ slot'[p].reply = "InsertFailed"
                /\ ~slot'[p].wrote
                /\ picks_collection' = picks_collection
           ELSE /\ slot'[p].reply = "Added"
                /\ picks_collection' = Append(picks_collection, slot[p].doc[1])]_vars

\* two record requests both reached insert_one: one was added, the other
\* failed on the duplicate key, and one document is stored
C3_Witness ==
    /\ Len(picks_collection) = 1
    /\ \E p, q \in Procs :
        /\ slot[p].op = "record" /\ slot[p].reply = "Added"
        /\ slot[q].op = "record" /\ slot[q].reply = "InsertFailed"
        /\ ~slot[q].db_error

\* C4: a stored document never changes and never disappears: every step
\* leaves each collection a prefix of what it is afterwards.
IsPrefix(a, b) == Len(a) <= Len(b) /\ \A i \in 1..Len(a) : b[i] = a[i]

C4_StoredRecordsFrozen ==
    [][/\ IsPrefix(picks_collection, picks_collection')
       /\ IsPrefix(wallets_collection, wallets_collection')]_vars

\* a pick and a wallet frozen at one reference price are still stored, with
\* the values of that price, after a request that read another reference
\* price and another trade price
C4_Witness ==
    /\ \E i \in 1..Len(picks_collection) :
        /\ picks_collection[i].cost_basis_usd = FMul(Half, 2 * One)
        /\ picks_collection[i].num_tokens = FDiv(Half, One \div 2)
    /\ \E p \in Procs :
        /\ slot[p].reply = "Leaderboard"
        /\ slot[p].sol_price = Num(3 * One)
        /\ \E k \in 1..Len(slot[p].data_list) :
            slot[p].data_list[k].current_price_usd = FMul(One \div 4, 3 * One)

\* C5: a record or register request that reads a reference price <= 0
\* returns at once with MarketDataUnavailable, has written nothing, and the
\* step leaves both collections as they were.
C5_NoPriceNoWrite ==
    [][\A p \in Procs :
        (/\ slot[p].pc \in {"hc_sol_price", "rw_sol_price"}
         /\ slot'[p] # slot[p]
         /\ slot'[p].sol_price.t = "num"
         /\ slot'[p].sol_price.v <= 0)
        => /\ slot'[p].pc = "done"
           /\ slot'[p].reply = "MarketDataUnavailable"
           /\ ~slot'[p].wrote
           /\ picks_collection' = picks_collection
           /\ wallets_collection' = wallets_collection]_vars

\* a record request and a register request both read a price <= 0
C5_Witness ==
    \E p, q \in Procs :
        /\ slot[p].op = "record" /\ slot[q].op = "register"
        /\ slot[p].sol_price = Num(0) /\ slot[q].sol_price = Num(0)
        /\ slot[p].reply = "MarketDataUnavailable"
        /\ slot[q].reply = "MarketDataUnavailable"
        /\ picks_collection = <<>> /\ wallets_collection = <<>>

\* the alphabet as the claim words it: digits and letters without 0, O, I, l
ClaimedAlphabet ==
    ({"0", "1", "2", "3", "4", "5", "6", "7", "8", "9",
      "A", "B", "C", "D", "E", "F", "G", "H", "I", "J", "K", "L", "M",
      "N", "O", "P", "Q", "R", "S", "T", "U", "V", "W", "X", "Y", "Z",
      "a", "b", "c", "d", "e", "f", "g", "h", "i", "j", "k", "l", "m",
      "n", "o", "p", "q", "r", "s", "t", "u", "v", "w", "x", "y", "z"}
     \ {"0", "O", "I", "l"})

\* C6 (as claimed): is_valid_solana_address(s) is true exactly when s has 43
\* or 44 characters and every one of them, the last included, is in the
\* base-58 alphabet.
C6_ValidIffLengthAndAlphabet ==
    valid.called =>
        (valid.result <=>
            (/\ Len(address) \in {43, 44}
             /\ \A i \in 1..Len(address) : address[i] \in ClaimedAlphabet))

\* the key of a ranked item and its PnL, for either leaderboard
ItemId(op, x) == IF op = "sniper" THEN x.wallet_address ELSE x.mint
ItemPnl(op, x) == IF op = "sniper" THEN x.pnl_usd ELSE x.pnl

Ranked(p) == slot[p].reply = "Leaderboard"

\* C7: a leaderboard that was sent has at most 10 entries, ranked 1, 2, ..
\* in order, with PnL that never increases down the list.
C7_RankedListBoundedAndSorted ==
    \A p \in Procs :
        Ranked(p) =>
            LET l == slot[p].out.list
            IN  /\ Len(l) <= 10
                /\ \A i \in 1..Len(l) : l[i].rank = i
                /\ \A i \in 1..Len(l) - 1 :
                    ItemPnl(slot[p].op, l[i].item) >= ItemPnl(slot[p].op, l[i + 1].item)

\* a leaderboard over 11 documents was cut to 10, and the sort had to move
\* a later document in front of an earlier one
C7_Witness ==
    \E p \in Procs :
        /\ Ranked(p)
        /\ Len(slot[p].data_list) = 11
        /\ Len(slot[p].out.list) = 10
        /\ \E i \in 1..10 :
            ItemPnl(slot[p].op, slot[p].data_list[i])
                < ItemPnl(slot[p].op, slot[p].data_list[i + 1])

\* where the item with key id stands in the list the ledger returned
Position(op, list, id) == CHOOSE k \in 1..Len(list) : ItemId(op, list[k]) = id

\* C8: the valued list is in the order of the collection; ranked items of
\* equal PnL stand in that order; and an item that was cut off has a PnL
\* below every ranked item's, or equal and then stands later in that order.
C8_TiesKeepLedgerOrder ==
    \A p \in Procs :
        Ranked(p) =>
            LET op == slot[p].op
                coll == IF op = "sniper" THEN wallets_collection ELSE picks_collection
                all == slot[p].data_list
                l == slot[p].out.list
                pos(i) == Position(op, all, ItemId(op, l[i].item))
                kept == {pos(i) : i \in 1..Len(l)}
            IN  /\ Len(all) = Len(coll)
                /\ \A k \in 1..Len(all) :
                    ItemId(op, all[k]) = IF op = "sniper"
                                         THEN coll[k].wallet_address
                                         ELSE coll[k].mint_address
                /\ \A i \in 1..Len(l) : all[pos(i)] = l[i].item
                /\ \A i, j \in 1..Len(l) :
                    (i < j /\ ItemPnl(op, l[i].item) = ItemPnl(op, l[j].item))
                    => pos(i) < pos(j)
                /\ \A k \in (1..Len(all)) \ kept : \A i \in 1..Len(l) :
                    \/ ItemPnl(op, all[k]) < ItemPnl(op, l[i].item)
                    \/ /\ ItemPnl(op, all[k]) = ItemPnl(op, l[i].item)
                       /\ pos(i) < k

\* 11 documents of which the 3rd and the 11th tie with the lowest ranked
\* PnL while better ones stand between them: the tie straddles the cut, the
\* 11th is the one cut off, and the 3rd was moved behind later documents
C8_Witness ==
    \E p \in Procs :
        /\ Ranked(p)
        /\ Len(slot[p].data_list) = 11
        /\ LET op == slot[p].op
               all == slot[p].data_list
               l == slot[p].out.list
           IN  /\ ItemPnl(op, all[3]) = ItemPnl(op, all[11])
               /\ ItemPnl(op, all[3]) < ItemPnl(op, all[4])
               /\ ItemPnl(op, l[10].item) = ItemPnl(op, all[11])
               /\ \A i \in 1..10 : ItemId(op, l[i].item) # ItemId(op, all[11])
               /\ \E i, j \in 1..10 :
                    /\ i < j
                    /\ ItemPnl(op, l[i].item) = ItemPnl(op, l[j].item)

\* C9 (as claimed): what a handler holds as the price returned by the
\* gateway is always a number, and no exception leaves a handler except
\* after a failed ledger call.
C9_GatewayReturnsUsableValues ==
    \A p \in Procs :
        /\ slot[p].sol_price.t \in {"unset", "num"}
        /\ slot[p].reply = "Fault" => slot[p].db_error

\* C10 (as claimed): a request one of whose ledger calls failed with an
\* error that is no duplicate ends with a failure reported to the caller,
\* never with an exception leaving the handler.
C10_LedgerFailureIsReported ==
    \A p \in Procs :
        slot[p].db_error => slot[p].reply \in {"InsertFailed", "PersistenceError"}

\* C11 (as claimed): in a token leaderboard pass, a pick whose trade price
\* read returned a value <= 0 is still listed, with current price 0 and
\* pnl = -cost_basis_usd; the pass goes on, every pick of the chat gets its
\* item, and the items valued before stay as they were.
C11_UnavailableTradePriceDegradesOneItem ==
    [][\A p \in Procs :
        (slot[p].pc = "lb_loop" /\ slot'[p] # slot[p]) =>
            LET s == slot[p]
                t == slot'[p]
                k == Len(s.data_list) + 1
                pick == s.all_items[k]
            IN  /\ t.reply # "Fault"
                /\ Len(t.data_list) = k
                /\ SubSeq(t.data_list, 1, k - 1) = s.data_list
                /\ t.data_list[k].mint = pick.mint_address
                /\ t.reads[k].v <= 0 =>
                    /\ t.data_list[k].current_price_usd = 0
                    /\ t.data_list[k].pnl = 0 - pick.cost_basis_usd
                /\ t.reply = "Leaderboard" => Len(t.data_list) = Len(s.all_items)
      ]_vars

\* C12: in a token leaderboard and in a share request the reference price
\* is read once, before any trade price is read; it stays what it was
\* through the whole loop, and every pick of the pass is valued with it.
C12_ReferencePriceReadOnce ==
    [][\A p \in Procs :
        LET s == slot[p]
            t == slot'[p]
        IN  (s.op \in {"leaderboard", "share"} /\ s.pc # "done" /\ t # s) =>
                /\ t.sol_price # s.sol_price =>
                    /\ s.pc \in {"lb_sol_price", "sh_sol_price"}
                    /\ s.sol_price = Unset
                    /\ s.reads = <<>>
                /\ s.pc \in {"lb_loop", "sh_loop"} =>
                    LET k == Len(s.data_list) + 1
                        pick == s.all_items[k]
                        price == FMul(t.reads[k].v, s.sol_price.v)
                    IN  /\ s.sol_price.t = "num"
                        /\ s.sol_price.v > 0
                        /\ Len(t.reads) = k
                        /\ s.pc = "lb_loop" => t.data_list[k].current_price_usd = price
                        /\ t.data_list[k].pnl =
                            FSub(FMul(pick.num_tokens, price), pick.cost_basis_usd)
      ]_vars

\* a leaderboard over two picks, both valued at a reference price of 3.0
\* that differs from the price the first pick was stored at, with two
\* different trade prices read
C12_Witness ==
    \E p \in Procs :
        /\ slot[p].reply = "Leaderboard"
        /\ slot[p].op = "leaderboard"
        /\ slot[p].sol_price = Num(3 * One)
        /\ Len(slot[p].reads) = 2
        /\ slot[p].reads[1] # slot[p].reads[2]
        /\ slot[p].data_list[1].cost_basis_usd # FMul(Half, 3 * One)
        /\ \A k \in 1..2 :
            slot[p].data_list[k].current_price_usd
                = FMul(slot[p].reads[k].v, 3 * One)

\* a leaderboard turn that values a pick at the very prices (R, P) that
\* give the values stored in it
SamePrices(pick, R, P) ==
    /\ R > 0
    /\ P > 0
    /\ pick.cost_basis_usd = FMul(Half, R)
    /\ pick.num_tokens = FDiv(Half, P)

\* 0.5 / P and P * R are floats: computing them rounds nothing
Unrounded(R, P) ==
    /\ FDiv(Half, P) * P = Half * One
    /\ FMul(P, R) * One = P * R

\* C13 (as claimed): zero drift for every R > 0 and P > 0: a pick recorded
\* at (R, P) and valued at the same (R, P) has pnl exactly 0.
C13_ZeroDrift ==
    [][\A p \in Procs :
        (slot[p].pc = "lb_loop" /\ slot'[p] # slot[p]) =>
            LET k == Len(slot[p].data_list) + 1
            IN  SamePrices(slot[p].all_items[k], slot[p].sol_price.v,
                           slot'[p].reads[k].v)
                => slot'[p].data_list[k].pnl = 0
      ]_vars

\* C13 (amended): zero drift when 0.5 / P and P * R are computed without
\* rounding: then a pick recorded at (R, P) and valued at the same (R, P)
\* has pnl exactly 0.
C13_ZeroDriftWhenUnrounded ==
    [][\A p \in Procs :
        (slot[p].pc = "lb_loop" /\ slot'[p] # slot[p]) =>
            LET k == Len(slot[p].data_list) + 1
            IN  (/\ SamePrices(slot[p].all_items[k], slot[p].sol_price.v,
                               slot'[p].reads[k].v)
                 /\ Unrounded(slot[p].sol_price.v, slot'[p].reads[k].v))
                => slot'[p].data_list[k].pnl = 0
      ]_vars

\* the one stored pick, recorded at R = 3.0 and P = 0.25, was valued at
\* the same prices and its pnl is 0
C13_Witness ==
    \E p \in Procs :
        /\ slot[p].reply = "Leaderboard"
        /\ slot[p].op = "leaderboard"
        /\ Len(picks_collection) = 1
        /\ slot[p].sol_price = Num(3 * One)
        /\ slot[p].reads = <<Num(One \div 4)>>
        /\ SamePrices(picks_collection[1], 3 * One, One \div 4)
        /\ Unrounded(3 * One, One \div 4)
        /\ slot[p].data_list[1].cost_basis_usd = FMul(Half, 3 * One)
        /\ slot[p].data_list[1].pnl = 0

\* C14: a pick is stored with cost_basis_usd = 0.5 * R0 and
\* num_tokens = 0.5 / P0 for the prices (R0, P0) read by its request; the
\* stored document is the one inserted; and a leaderboard that reads
\* (R1, P1) lists it with current price P1 * R1, the stored cost basis, and
\* pnl = num_tokens * (P1 * R1) - cost_basis_usd from the stored values.
C14_FrozenCostLiveValue ==
    [][\A p \in Procs :
        LET s == slot[p]
            t == slot'[p]
        IN  /\ (s.pc = "hc_close_price" /\ t.pc = "hc_insert") =>
                /\ t.doc[1].cost_basis_usd = FMul(Half, s.sol_price.v)
                /\ t.doc[1].num_tokens = FDiv(Half, t.reads[1].v)
            /\ (s.pc = "hc_insert" /\ t.wrote) =>
                picks_collection' = Append(picks_collection, s.doc[1])
            /\ (s.pc = "lb_find" /\ t.pc = "lb_loop") =>
                \A k \in 1..Len(t.all_items) :
                    \E i \in 1..Len(picks_collection) :
                        t.all_items[k] = picks_collection[i]
            /\ (s.pc = "lb_loop" /\ t # s) =>
                LET k == Len(s.data_list) + 1
                    pick == s.all_items[k]
                    item == t.data_list[k]
                    R1 == s.sol_price.v
                    P1 == t.reads[k].v
                IN  /\ item.cost_basis_usd = pick.cost_basis_usd
                    /\ item.current_price_usd = FMul(P1, R1)
                    /\ item.pnl = FSub(FMul(pick.num_tokens, FMul(P1, R1)),
                                       pick.cost_basis_usd)
      ]_vars

\* a pick recorded at R0 = 2.0, P0 = 0.25 (cost basis 1.0, 2.0 tokens) and
\* valued at R1 = 3.0, P1 = 0.5: price 1.5, value 3.0, pnl 2.0
C14_Witness ==
    \E p \in Procs :
        /\ slot[p].reply = "Leaderboard"
        /\ slot[p].op = "leaderboard"
        /\ Len(picks_collection) = 1
        /\ picks_collection[1].cost_basis_usd = One
        /\ picks_collection[1].num_tokens = 2 * One
        /\ slot[p].sol_price = Num(3 * One)
        /\ slot[p].reads = <<Num(One \div 2)>>
        /\ slot[p].data_list[1].current_price_usd = (3 * One) \div 2
        /\ slot[p].data_list[1].cost_basis_usd = One
        /\ slot[p].data_list[1].pnl = 2 * One

\* quantity * unit_value of one holding; a field that is not there counts 0
HoldingValue(h) ==
    FMul(IF h.balance.t = "missing" THEN 0 ELSE h.balance.v,
         IF h.value.t = "missing" THEN 0 ELSE h.value.v)

\* the sum of the first n holdings, added up from the first one on
RECURSIVE NetWorth(_, _)
NetWorth(items, n) ==
    IF n = 0 THEN 0
    ELSE FAdd(NetWorth(items, n - 1), HoldingValue(items[n]))

\* C15: a wallet is stored with start_usd_value = 0.5 * R0 for the price R0
\* read by its registration, and the stored document is the one inserted;
\* a wallet leaderboard lists it with net_worth_usd = the sum of
\* quantity * unit_value over the holdings returned for it (0 for none) and
\* pnl_usd = net_worth_usd - the stored start_usd_value.
C15_WalletNetWorthAgainstStoredStake ==
    [][\A p \in Procs :
        LET s == slot[p]
            t == slot'[p]
        IN  /\ (s.pc = "rw_sol_price" /\ t.pc = "rw_insert") =>
                t.doc[1].start_usd_value = FMul(Half, t.sol_price.v)
            /\ (s.pc = "rw_insert" /\ t.wrote) =>
                wallets_collection' = Append(wallets_collection, s.doc[1])
            /\ (s.pc = "sn_find" /\ t.pc = "sn_loop") =>
                \A k \in 1..Len(t.all_items) :
                    \E i \in 1..Len(wallets_collection) :
                        t.all_items[k] = wallets_collection[i]
            /\ (s.pc = "sn_loop" /\ t # s) =>
                LET k == Len(s.data_list) + 1
                    w == s.all_items[k]
                    item == t.data_list[k]
                    holdings == t.reads[k].items
                IN  /\ t.reply # "Fault"
                    /\ item.wallet_address = w.wallet_address
                    /\ item.net_worth_usd = NetWorth(holdings, Len(holdings))
                    /\ item.pnl_usd = FSub(item.net_worth_usd, w.start_usd_value)
      ]_vars

\* a wallet registered at R0 = 2.0 (stake 1.0) and valued while the
\* reference price is 3.0, with holdings (3, 0.75) and (1, 1): net worth
\* 3.25, pnl 2.25
C15_Witness ==
    \E p \in Procs :
        /\ slot[p].reply = "Leaderboard"
        /\ slot[p].op = "sniper"
        /\ Len(wallets_collection) = 1
        /\ wallets_collection[1].start_usd_value = One
        /\ slot[p].sol_price = Num(3 * One)
        /\ Len(slot[p].reads) = 1
        /\ Len(slot[p].reads[1].items) = 2
        /\ slot[p].data_list[1].net_worth_usd = (13 * One) \div 4
        /\ slot[p].data_list[1].pnl_usd = (9 * One) \div 4

\* the slot runs no handler
AtRest(s) == s.pc \in {"idle", "done"}

\* C16: handle_contract_address and register_wallet_command check in the
\* order address, duplicate, market.  ValidationError is answered at once,
\* before any ledger or gateway call; the ledger is asked only about a
\* valid address; a stored key is answered DuplicateKey by the find_one
\* step itself, with no price read; and a price is read only after a
\* find_one that found nothing.
C16_ValidateThenDuplicateThenMarket ==
    [][\A p \in Procs :
        LET s == slot[p]
            t == slot'[p]
        IN  (t # s /\ t.op \in {"record", "register"}) =>
                /\ t.reply \in {"ValidationError", "Usage"} =>
                    /\ AtRest(s)
                    /\ t.sol_price = Unset /\ t.reads = <<>>
                    /\ ~t.db_error /\ ~t.wrote
                /\ t.pc \in {"hc_find_one", "rw_find_one"} =>
                    /\ AtRest(s)
                    /\ is_valid_solana_address(t.text)
                /\ s.pc = "hc_find_one" =>
                    ((picks_find_one(picks_collection, s.chat_id, s.text)
                      /\ ~t.db_error) <=> (t.reply = "DuplicateKey"))
                /\ s.pc = "rw_find_one" =>
                    ((wallets_find_one(wallets_collection, s.chat_id, s.text)
                      /\ ~t.db_error) <=> (t.reply = "DuplicateKey"))
                /\ t.reply = "DuplicateKey" =>
                    /\ s.pc \in {"hc_find_one", "rw_find_one"}
                    /\ t.sol_price = Unset /\ t.reads = <<>>
                /\ t.sol_price # s.sol_price =>
                    \/ AtRest(s) /\ t.sol_price = Unset
                    \/ s.pc \in {"hc_sol_price", "rw_sol_price"} /\ s.reads = <<>>
                /\ (t.pc = "hc_sol_price" /\ s.pc # t.pc) =>
                    /\ s.pc = "hc_find_one"
                    /\ ~picks_find_one(picks_collection, s.chat_id, s.text)
                /\ (t.pc = "rw_sol_price" /\ s.pc # t.pc) =>
                    /\ s.pc = "rw_find_one"
                    /\ ~wallets_find_one(wallets_collection, s.chat_id, s.text)
                /\ t.reads # s.reads => s.pc = "hc_close_price" \/ AtRest(s)
      ]_vars

\* a pasted address whose (chat, mint) is stored was answered DuplicateKey
\* and no price was read for it
C16_Witness ==
    \E p \in Procs :
        /\ slot[p].op = "record"
        /\ slot[p].reply = "DuplicateKey"
        /\ slot[p].sol_price = Unset
        /\ slot[p].reads = <<>>
        /\ Len(picks_collection) >= 2
        /\ ~slot[p].wrote

\* C17: a handle_contract_address whose trade price read returns a value
\* <= 0 answers MarketDataUnavailable and writes nothing; a pick reaches
\* insert_one only with num_tokens = 0.5 / P for a price P > 0 read by its
\* request, so every stored pick has num_tokens > 0; and an address that is
\* not stored goes on to the prices and is added when insert_one succeeds.
C17_NoTradePriceNoPick ==
    [][\A p \in Procs :
        LET s == slot[p]
            t == slot'[p]
        IN  /\ (s.pc = "hc_close_price" /\ t # s) =>
                /\ t.reads[1].v <= 0 =>
                    /\ t.reply = "MarketDataUnavailable"
                    /\ ~t.wrote
                    /\ UNCHANGED ledger_vars
                /\ t.reads[1].v > 0 => t.pc = "hc_insert"
            /\ t.pc = "hc_insert" =>
                /\ t.reads[1].v > 0
                /\ t.doc[1].num_tokens = FDiv(Half, t.reads[1].v)
            /\ (s.pc = "hc_find_one" /\ ~t.db_error
                /\ ~picks_find_one(picks_collection, s.chat_id, s.text)) =>
                t.pc = "hc_sol_price"
            /\ (s.pc = "hc_insert" /\ ~t.db_error
                /\ ~picks_find_one(picks_collection, s.chat_id, s.text)) =>
                /\ t.reply = "Added"
                /\ picks_collection' = Append(picks_collection, s.doc[1])
            /\ \A i \in 1..Len(picks_collection') :
                picks_collection'[i].num_tokens > 0
      ]_vars

\* with a pick of an earlier request stored, a later paste read a reference
\* price of 2.0 and a trade price of 0 and was refused; nothing was added
C17_Witness ==
    \E p \in Procs :
        /\ slot[p].op = "record"
        /\ slot[p].reply = "MarketDataUnavailable"
        /\ slot[p].sol_price = Num(2 * One)
        /\ slot[p].reads = <<Num(0)>>
        /\ ~slot[p].wrote
        /\ Len(picks_collection) = 1

\* the documents of coll, in order, whose chat_id is chat_id
OfChat(coll, chat_id, list) ==
    \E f \in [1..Len(list) -> 1..Len(coll)] :
        /\ \A k \in 1..Len(list) : list[k] = coll[f[k]]
        /\ \A k \in 1..Len(list) - 1 : f[k] < f[k + 1]
        /\ \A i \in 1..Len(coll) :
            (coll[i].chat_id = chat_id) <=> (\E k \in 1..Len(list) : f[k] = i)

\* C18: keys and listings are per chat.  A pick is refused as stored only
\* for a stored pick of its own chat, and one whose mint is stored for
\* other chats only is added; a token leaderboard is made of exactly the
\* picks of its chat and a wallet leaderboard of exactly the wallets of its
\* chat, one item per document, and no leaderboard holds both kinds.
C18_ScopedPerChat ==
    [][\A p \in Procs :
        LET s == slot[p]
            t == slot'[p]
        IN  /\ (s.pc = "hc_find_one" /\ t.reply = "DuplicateKey") =>
                \E i \in 1..Len(picks_collection) :
                    /\ picks_collection[i].chat_id = s.chat_id
                    /\ picks_collection[i].mint_address = s.text
            /\ (s.pc = "hc_insert" /\ ~t.db_error
                /\ \A i \in 1..Len(picks_collection) :
                    picks_collection[i].mint_address = s.text
                    => picks_collection[i].chat_id # s.chat_id) =>
                /\ t.reply = "Added"
                /\ picks_collection' = Append(picks_collection, s.doc[1])
                /\ s.doc[1].chat_id = s.chat_id
            /\ (s.pc = "rw_find_one" /\ t.reply = "DuplicateKey") =>
                \E i \in 1..Len(wallets_collection) :
                    /\ wallets_collection[i].chat_id = s.chat_id
                    /\ wallets_collection[i].wallet_address = s.text
            /\ (s.pc = "lb_find" /\ t.pc = "lb_loop") =>
                OfChat(picks_collection, s.chat_id, t.all_items)
            /\ (s.pc = "sn_find" /\ t.pc = "sn_loop") =>
                OfChat(wallets_collection, s.chat_id, t.all_items)
            /\ (s.pc = "lb_loop" /\ t # s) =>
                LET k == Len(s.data_list) + 1
                IN  /\ t.data_list[k].mint = s.all_items[k].mint_address
                    /\ t.reply = "Leaderboard" =>
                        /\ Len(t.data_list) = Len(s.all_items)
                        /\ \A i \in 1..Len(t.out.list) :
                            \E j \in 1..Len(t.data_list) :
                                t.out.list[i].item = t.data_list[j]
            /\ (s.pc = "sn_loop" /\ t # s /\ t.reply # "Fault") =>
                LET k == Len(s.data_list) + 1
                IN  /\ t.data_list[k].wallet_address = s.all_items[k].wallet_address
                    /\ t.reply = "Leaderboard" =>
                        /\ Len(t.data_list) = Len(s.all_items)
                        /\ \A i \in 1..Len(t.out.list) :
                            \E j \in 1..Len(t.data_list) :
                                t.out.list[i].item = t.data_list[j]
      ]_vars

\* a mint stored for one chat was pasted in the other chat and added: the
\* last two picks have the same mint and different chats, while wallets
\* are stored too
C18_Witness ==
    \E p \in Procs :
        /\ slot[p].op = "record"
        /\ slot[p].reply = "Added"
        /\ slot[p].wrote
        /\ wallets_collection # <<>>
        /\ Len(picks_collection) >= 3
        /\ LET n == Len(picks_collection)
           IN  \E i \in 1..n - 1 :
                /\ picks_collection[i].mint_address = picks_collection[n].mint_address
                /\ picks_collection[i].chat_id # picks_collection[n].chat_id

\* C19: no step of leaderboard_command, sniper_leaderboard_command or
\* share_command changes a collection, whatever the gateways return; a
\* collection changes only in the insert_one step of a request that is
\* answered as added, and then by that one document appended to one of them.
C19_QueriesWriteNothing ==
    [][/\ \A p \in Procs :
            (slot'[p] # slot[p]
             /\ slot'[p].op \in {"leaderboard", "sniper", "share"})
            => UNCHANGED ledger_vars
       /\ ledger_vars' # ledger_vars =>
            \E p \in Procs :
                /\ slot[p].pc \in {"hc_insert", "rw_insert"}
                /\ slot'[p].reply = "Added"
                /\ slot'[p].wrote
                /\ \/ /\ slot[p].pc = "hc_insert"
                      /\ picks_collection' = Append(picks_collection, slot[p].doc[1])
                      /\ UNCHANGED wallets_collection
                   \/ /\ slot[p].pc = "rw_insert"
                      /\ wallets_collection' = Append(wallets_collection, slot[p].doc[1])
                      /\ UNCHANGED picks_collection
      ]_vars

\* a share over two picks, one of them valued at the sentinel price 0, has
\* answered, and the three picks and the wallets are all in place
C19_Witness ==
    \E p \in Procs :
        /\ slot[p].op = "share"
        /\ slot[p].reply = "ShareText"
        /\ Len(slot[p].reads) = 2
        /\ \E k \in 1..2 : slot[p].reads[k] = Num(0)
        /\ Len(picks_collection) = 3
        /\ Len(wallets_collection) = 3
        /\ ~slot[p].wrote

\* the documents of coll, in order, of chat_id and user_id
OfChatUser(coll, chat_id, user_id, list) ==
    \E f \in [1..Len(list) -> 1..Len(coll)] :
        /\ \A k \in 1..Len(list) : list[k] = coll[f[k]]
        /\ \A k \in 1..Len(list) - 1 : f[k] < f[k + 1]
        /\ \A i \in 1..Len(coll) :
            (coll[i].chat_id = chat_id /\ coll[i].user_id = user_id)
            <=> (\E k \in 1..Len(list) : f[k] = i)

\* the pnl of the first n lines, added up from the first one on
RECURSIVE LineSum(_, _)
LineSum(lines, n) ==
    IF n = 0 THEN 0 ELSE FAdd(LineSum(lines, n - 1), lines[n].pnl)

\* C20 (as claimed): a share request whose ledger call succeeded answers
\* NoPositions when the user has no pick in the chat and the share text,
\* one line per pick of the user, otherwise.
C20_ShareTextOrNoPositions ==
    [][\A p \in Procs :
        LET s == slot[p]
            t == slot'[p]
        IN  (s.op = "share" /\ s.pc # "done" /\ t.pc = "done" /\ ~t.db_error) =>
                t.reply \in {"NoPositions", "ShareText"}
      ]_vars

\* C20 (amended): share_command answers NoPositions exactly when the user
\* has no pick in the chat; otherwise, when the reference price it reads is
\* a number > 0, it makes one line per pick of that user in that chat (of
\* no other user, of no other chat), in ledger order, and the total is the
\* sum of the pnl of these lines; when the price is <= 0 it answers
\* MarketDataUnavailable and makes no line.
C20_ShareLinesOfOwnPicksWhenPriced ==
    [][\A p \in Procs :
        LET s == slot[p]
            t == slot'[p]
        IN  /\ (s.pc = "sh_find" /\ t # s /\ ~t.db_error) =>
                /\ (t.reply = "NoPositions") <=>
                    (\A i \in 1..Len(picks_collection) :
                        ~(/\ picks_collection[i].chat_id = s.chat_id
                          /\ picks_collection[i].user_id = s.user_id))
                /\ t.reply # "NoPositions" =>
                    /\ t.pc = "sh_sol_price"
                    /\ OfChatUser(picks_collection, s.chat_id, s.user_id,
                                  t.all_items)
            /\ (s.pc = "sh_sol_price" /\ t # s) =>
                /\ (t.sol_price.t = "num" /\ t.sol_price.v > 0) <=> (t.pc = "sh_loop")
                /\ (t.sol_price.t = "num" /\ t.sol_price.v <= 0) =>
                    (t.reply = "MarketDataUnavailable" /\ t.out = NoOutput)
            /\ (s.pc = "sh_loop" /\ t # s) =>
                LET k == Len(s.data_list) + 1
                IN  /\ Len(t.data_list) = k
                    /\ SubSeq(t.data_list, 1, k - 1) = s.data_list
                    /\ t.data_list[k].mint = s.all_items[k].mint_address
                    /\ t.out.total_pnl = LineSum(t.data_list, k)
                    /\ (k = Len(s.all_items)) <=> (t.reply = "ShareText")
                    /\ t.reply = "ShareText" => t.out.list = t.data_list
      ]_vars

\* a share text of two lines with pnl that differ, made while the ledger
\* holds a third pick that is not in it; the total is the sum of the two
C20_Witness ==
    \E p \in Procs :
        /\ slot[p].op = "share"
        /\ slot[p].reply = "ShareText"
        /\ Len(picks_collection) = 3
        /\ Len(slot[p].out.list) = 2
        /\ slot[p].out.list[1].pnl # slot[p].out.list[2].pnl
        /\ slot[p].out.list[1].pnl # 0
        /\ slot[p].out.list[2].pnl # 0
        /\ slot[p].out.total_pnl
            = FAdd(slot[p].out.list[1].pnl, slot[p].out.list[2].pnl)
        /\ \E i \in 1..3 : \A k \in 1..2 :
            picks_collection[i].mint_address # slot[p].out.list[k].mint
            \/ picks_collection[i].chat_id = 2

====
